---- MODULE Spec2Model ----
(***************************************************************************)
(* The signaling relay of peerpoint (src/server.js, the handlers registered *)
(* by io.on("connection") at lines 95-199) as a state machine.  The file    *)
(* holds two copies of the relay; lines 76-202 are the current one, with    *)
(* the capacity check, activeUsers and the leave-room handler.              *)
(*                                                                          *)
(* Socket ids and room ids are opaque strings in the source; here they are  *)
(* numbers.  Socket.IO puts every connected socket into a room named by its *)
(* own socket id, so adapter.rooms has an entry per connected socket next   *)
(* to the rooms the clients name.                                           *)
(*                                                                          *)
(* Each handler is synchronous JavaScript and runs to completion before the *)
(* next event is dispatched, so each handler is one atomic action.          *)
(*                                                                          *)
(* The second part is the client of the relay, the hook useWebRTC of        *)
(* src/app/page.tsx (lines 1267-1566) with the page handlers that drive it; *)
(* SpecCall runs NumCallers clients against the relay, with the events in   *)
(* flight in both directions.  SpecHook runs one client next to the sockets *)
(* of other clients, SpecRestart one client over two calls, and SpecPair    *)
(* two clients of which the second joins after the first, under fairness.   *)
(***************************************************************************)
EXTENDS Integers, Sequences, FiniteSets, TLC

\* ------------------------------------------------------------------ bounds
NumSockets == 3
NumRooms == 2
NumPayloads == 2
NumCallers == 2
NumCallRooms == 1
NumCandidates == 1
MaxPeerEnvelopes == 1
MaxReports == 3
MaxStaleTimers == 1

SocketIds == 1..NumSockets
\* The room ids the clients name: codes of six upper-case characters
\* (generateRoomId, or the upper-cased input field), never a socket id, so the
\* room named by a socket id holds that socket alone.
NamedRooms == (NumSockets + 1)..(NumSockets + NumRooms)
RoomIds == SocketIds \cup NamedRooms
Payloads == 1..NumPayloads
NoRoom == 0
NoSocket == 0
Kinds == {"offer", "answer", "ice-candidate"}
\* The sockets that are driven by the client of this repository (useWebRTC),
\* and the room codes their pages generate or are given.
Callers == 1..NumCallers
CallRooms == (NumSockets + 1)..(NumSockets + NumCallRooms)

VARIABLES
    status,       \* per socket: "idle" (not yet connected), "connected", "closed"
    rooms,        \* io.sockets.adapter.rooms: room id -> set of socket ids
    activeUsers,  \* activeUsers: socket id -> roomId of its entry, NoRoom if none
    outbox,       \* what the last handler emitted, in the order of its emit calls
    last,         \* the event the last handler was dispatched for
    hasLeft,      \* history: <<s, r>> when s left room r by leave-room and has
                  \* not joined r since
    orch,         \* per caller: the page's and the useWebRTC hook's state
    toRelay,      \* per caller: events emitted to the relay, not yet handled
    inbox,        \* per caller: events the relay emitted to it, not yet handled
    notices,      \* history: notices[b][a] counts the user-left {a} and the
                  \* room-info delivered to b by handler runs of a's events
    peerBudget    \* envelopes the sockets of other clients may still send

callVars == <<orch, toRelay, inbox, notices, peerBudget>>
vars == <<status, rooms, activeUsers, outbox, last, hasLeft, orch, toRelay, inbox,
          notices, peerBudget>>

\* ------------------------------------------------------- Socket.IO helpers
\* One emit call: the event, the sockets it is delivered to, and its payload
\* (from: the sender tag of an envelope; data: userId, numUsers or the opaque
\* offer / answer / candidate).
Emit(event, to, from, data) ==
    [event |-> event, to |-> to, from |-> from, data |-> data]

Event(event, s, roomId, data) ==
    [event |-> event, socket |-> s, roomId |-> roomId, data |-> data]

\* room ? room.size : 0
RoomSize(rms, roomId) == Cardinality(rms[roomId])

\* socket.to(roomId): every member of the room except the sending socket
\* (nobody when adapter.rooms has no such room)
SocketToIncludingSender(rms, s, roomId) ==
    IF roomId \in DOMAIN rms THEN rms[roomId] ELSE {}
SocketTo(rms, s, roomId) ==
    IF roomId \in DOMAIN rms THEN rms[roomId] \ {s} ELSE {}

\* io.to(roomId): every member of the room
IoTo(rms, roomId) == rms[roomId]

\* socket.join(roomId) / socket.leave(roomId)
SocketJoin(rms, s, roomId) == [rms EXCEPT ![roomId] = @ \cup {s}]
SocketLeave(rms, s, roomId) == [rms EXCEPT ![roomId] = @ \ {s}]

\* Socket.IO removes a closing socket from every room before it emits
\* "disconnect" to the handler.
LeaveAll(rms, s) == [r \in RoomIds |-> rms[r] \ {s}]

\* The hook before any call (useState / useRef initial values, lines
\* 1276-1284) with the page state it is driven by, and the fields of the
\* RTCPeerConnection and of the offer timer once they exist.
NewOrchestrator ==
    [roomId |-> NoRoom,            \* page: roomId
     isInCall |-> FALSE,           \* page: isInCall
     roomFull |-> FALSE,           \* page: roomFull
     started |-> FALSE,            \* startCall has run
     link |-> "none",              \* transport: none, connecting, up, closed
     socketRef |-> FALSE,          \* socketRef.current # null
     socketConnected |-> FALSE,
     handlerRoomId |-> NoRoom,     \* roomId captured by the socket handlers
     currentRoomRef |-> NoRoom,
     localStreamRef |-> FALSE,     \* localStreamRef.current # null
     peerConnectionRef |-> FALSE,  \* peerConnectionRef.current # null
     remoteUsers |-> <<>>,
     pcRoomId |-> NoRoom,          \* roomId captured by pc.onicecandidate
     signalingState |-> "stable",  \* stable, have-local-offer, have-remote-offer
     localDescription |-> "none",
     remoteDescription |-> "none",
     pcState |-> "new",            \* pc.connectionState
     answering |-> 0,              \* runs of the offer handler suspended in await
     offering |-> FALSE,           \* the timer callback is suspended in createOffer
     connectionState |-> "new",
     isConnected |-> FALSE,
     stateCallbacks |-> 0,         \* invocations of onConnectionStateChange
     callbackState |-> "new",      \* the state passed to the last of them
     toDiscover |-> 0,             \* local candidates still to be discovered
     iceReceived |-> 0,            \* ice-candidate events handled with a session
     iceApplied |-> 0,             \* of these, the ones addIceCandidate accepted
     timerArmed |-> FALSE,         \* the setTimeout of startCall is pending
     timerRoomId |-> NoRoom,       \* roomId captured by the timer callback
     timerObserved |-> 0,          \* remoteUsers.length captured by it
     offered |-> FALSE,            \* the timer created and emitted an offer
     offeringRoomId |-> NoRoom,    \* roomId captured by the suspended callback
     staleTimers |-> <<>>,         \* pending timers of earlier startCalls
     sessionOffers |-> 0]          \* offers set on the session of the ref

NoNotice == [userLeft |-> 0, roomInfo |-> 0]

\* -------------------------------------------------------------------- Init
Init ==
    /\ status = [s \in SocketIds |-> "idle"]
    /\ rooms = [r \in RoomIds |-> {}]
    /\ activeUsers = [s \in SocketIds |-> NoRoom]
    /\ outbox = <<>>
    /\ last = Event("none", NoSocket, NoRoom, 0)
    /\ hasLeft = {}
    /\ orch = [c \in Callers |-> NewOrchestrator]
    /\ toRelay = [c \in Callers |-> <<>>]
    /\ inbox = [c \in Callers |-> <<>>]
    /\ notices = [b \in Callers |-> [a \in Callers |-> NoNotice]]
    /\ peerBudget = MaxPeerEnvelopes

\* ------------------------------------------------------------- connection
\* io.on("connection"): the socket is in the room named by its own id.
Connect(s) ==
    /\ status[s] = "idle"
    /\ status' = [status EXCEPT ![s] = "connected"]
    /\ rooms' = SocketJoin(rooms, s, s)
    /\ outbox' = <<>>
    /\ last' = Event("connection", s, NoRoom, 0)
    /\ UNCHANGED activeUsers

\* -------------------------------------------------------------- join-room
\* if (numUsers >= 2)
RoomIsFullOffByOne(numUsers) == numUsers > 2
RoomIsFullAtOne(numUsers) == numUsers >= 1
RoomIsFull(numUsers) == numUsers >= 2

\* The rejected branch: room-full to the joiner, then return.
RejectJoinLeavingPrevious(s, roomId) ==
    LET previousRoom == activeUsers[s]
        leaves == previousRoom # NoRoom /\ previousRoom # roomId
        rooms1 == IF leaves THEN SocketLeave(rooms, s, previousRoom) ELSE rooms
    IN  [rooms |-> rooms1,
         activeUsers |-> activeUsers,
         outbox |-> (IF leaves
                     THEN <<Emit("user-left", SocketTo(rooms1, s, previousRoom), NoSocket, s)>>
                     ELSE <<>>)
                    \o <<Emit("room-full", {s}, NoSocket, 0)>>]
RejectJoin(s, roomId) ==
    [rooms |-> rooms,
     activeUsers |-> activeUsers,
     outbox |-> <<Emit("room-full", {s}, NoSocket, 0)>>]

\* The admitted branch: leave the previous room if any, join, notify the
\* others, reply with the occupancy.
AdmitJoinStaleCount(s, roomId) ==
    LET previousRoom == activeUsers[s]
        leaves == previousRoom # NoRoom /\ previousRoom # roomId
        rooms1 == IF leaves THEN SocketLeave(rooms, s, previousRoom) ELSE rooms
        out1 == IF leaves
                THEN <<Emit("user-left", SocketTo(rooms1, s, previousRoom), NoSocket, s)>>
                ELSE <<>>
        rooms2 == SocketJoin(rooms1, s, roomId)
    IN  [rooms |-> rooms2,
         activeUsers |-> [activeUsers EXCEPT ![s] = roomId],
         outbox |-> out1 \o
                    <<Emit("user-joined", SocketTo(rooms2, s, roomId), NoSocket, s),
                      Emit("room-info", {s}, NoSocket, RoomSize(rooms, roomId))>>]
AdmitJoinReplaying(s, roomId) ==
    LET previousRoom == activeUsers[s]
        leaves == previousRoom # NoRoom /\ previousRoom # roomId
        rooms1 == IF leaves THEN SocketLeave(rooms, s, previousRoom) ELSE rooms
        out1 == IF leaves
                THEN <<Emit("user-left", SocketTo(rooms1, s, previousRoom), NoSocket, s)>>
                ELSE <<>>
        rooms2 == SocketJoin(rooms1, s, roomId)
        stored == IF last.event \in Kinds /\ last.roomId = roomId /\ last.socket # s
                  THEN <<Emit(last.event, {s}, last.socket, last.data)>>
                  ELSE <<>>
    IN  [rooms |-> rooms2,
         activeUsers |-> [activeUsers EXCEPT ![s] = roomId],
         outbox |-> out1 \o
                    <<Emit("user-joined", SocketTo(rooms2, s, roomId), NoSocket, s),
                      Emit("room-info", {s}, NoSocket, RoomSize(rooms2, roomId))>>
                    \o stored]
AdmitJoin(s, roomId) ==
    LET previousRoom == activeUsers[s]
        leaves == previousRoom # NoRoom /\ previousRoom # roomId
        rooms1 == IF leaves THEN SocketLeave(rooms, s, previousRoom) ELSE rooms
        out1 == IF leaves
                THEN <<Emit("user-left", SocketTo(rooms1, s, previousRoom), NoSocket, s)>>
                ELSE <<>>
        rooms2 == SocketJoin(rooms1, s, roomId)
        updatedNumUsers == RoomSize(rooms2, roomId)
    IN  [rooms |-> rooms2,
         activeUsers |-> [activeUsers EXCEPT ![s] = roomId],
         outbox |-> out1 \o
                    <<Emit("user-joined", SocketTo(rooms2, s, roomId), NoSocket, s),
                      Emit("room-info", {s}, NoSocket, updatedNumUsers)>>]

JoinRoomResult(s, roomId) ==
    IF RoomIsFull(RoomSize(rooms, roomId))
    THEN RejectJoin(s, roomId)
    ELSE AdmitJoin(s, roomId)

JoinRoom(s, roomId) ==
    /\ status[s] = "connected"
    /\ LET res == JoinRoomResult(s, roomId) IN
        /\ rooms' = res.rooms
        /\ activeUsers' = res.activeUsers
        /\ outbox' = res.outbox
    /\ last' = Event("join-room", s, roomId, 0)
    /\ UNCHANGED status

\* ------------------------------------------- offer / answer / ice-candidate
\* socket.to(data.roomId).emit(kind, { <payload>, from: socket.id })
ForwardUntagged(kind, s, roomId, data) ==
    <<Emit(kind, SocketTo(rooms, s, roomId), NoSocket, data)>>
Forward(kind, s, roomId, data) ==
    <<Emit(kind, SocketTo(rooms, s, roomId), s, data)>>

Relay(kind, s, roomId, data) ==
    /\ status[s] = "connected"
    /\ outbox' = Forward(kind, s, roomId, data)
    /\ last' = Event(kind, s, roomId, data)
    /\ UNCHANGED <<status, rooms, activeUsers>>

Offer(s, roomId, data) == Relay("offer", s, roomId, data)
Answer(s, roomId, data) == Relay("answer", s, roomId, data)
IceCandidate(s, roomId, data) == Relay("ice-candidate", s, roomId, data)

\* ------------------------------------------------------------- leave-room
LeaveRoomResultNotifyFirst(s, roomId) ==
    LET rooms1 == SocketLeave(rooms, s, roomId)
    IN  [rooms |-> rooms1,
         activeUsers |-> [activeUsers EXCEPT ![s] = NoRoom],
         outbox |-> <<Emit("user-left", SocketTo(rooms, s, roomId), NoSocket, s),
                      Emit("room-info", IoTo(rooms, roomId), NoSocket,
                           RoomSize(rooms, roomId))>>]
LeaveRoomResult(s, roomId) ==
    LET rooms1 == SocketLeave(rooms, s, roomId)
        numUsers == RoomSize(rooms1, roomId)
    IN  [rooms |-> rooms1,
         activeUsers |-> [activeUsers EXCEPT ![s] = NoRoom],
         outbox |-> <<Emit("user-left", SocketTo(rooms1, s, roomId), NoSocket, s),
                      Emit("room-info", IoTo(rooms1, roomId), NoSocket, numUsers)>>]

LeaveRoom(s, roomId) ==
    /\ status[s] = "connected"
    /\ LET res == LeaveRoomResult(s, roomId) IN
        /\ rooms' = res.rooms
        /\ activeUsers' = res.activeUsers
        /\ outbox' = res.outbox
    /\ last' = Event("leave-room", s, roomId, 0)
    /\ UNCHANGED status

\* ------------------------------------------------------------- disconnect
DisconnectResultKeepingEntry(s) ==
    LET rooms1 == LeaveAll(rooms, s)
        roomId == activeUsers[s]
    IN  IF roomId # NoRoom
        THEN [rooms |-> rooms1,
              activeUsers |-> activeUsers,
              outbox |-> <<Emit("user-left", SocketTo(rooms1, s, roomId), NoSocket, s),
                           Emit("room-info", IoTo(rooms1, roomId), NoSocket,
                                RoomSize(rooms1, roomId))>>]
        ELSE [rooms |-> rooms1, activeUsers |-> activeUsers, outbox |-> <<>>]
DisconnectResult(s) ==
    LET rooms1 == LeaveAll(rooms, s)
        roomId == activeUsers[s]
    IN  IF roomId # NoRoom
        THEN [rooms |-> rooms1,
              activeUsers |-> [activeUsers EXCEPT ![s] = NoRoom],
              outbox |-> <<Emit("user-left", SocketTo(rooms1, s, roomId), NoSocket, s),
                           Emit("room-info", IoTo(rooms1, roomId), NoSocket,
                                RoomSize(rooms1, roomId))>>]
        ELSE [rooms |-> rooms1, activeUsers |-> activeUsers, outbox |-> <<>>]

Disconnect(s) ==
    /\ status[s] = "connected"
    /\ status' = [status EXCEPT ![s] = "closed"]
    /\ LET res == DisconnectResult(s) IN
        /\ rooms' = res.rooms
        /\ activeUsers' = res.activeUsers
        /\ outbox' = res.outbox
    /\ last' = Event("disconnect", s, NoRoom, 0)

\* -------------------------------------------------------------------- Next
\* The history of explicit leaves: a leave-room of a member records the pair,
\* a join that makes the socket a member again and a disconnect erase it.
TrackLeft ==
    LET s == last'.socket
        r == last'.roomId
    IN  CASE last'.event = "leave-room" /\ s \in rooms[r] -> hasLeft \cup {<<s, r>>}
          [] last'.event = "join-room" /\ s \in rooms'[r] -> hasLeft \ {<<s, r>>}
          [] last'.event = "disconnect" -> {p \in hasLeft : p[1] # s}
          [] OTHER -> hasLeft

\* One event dispatched to its handler.
Next ==
    \/ \E s \in SocketIds : Connect(s) /\ UNCHANGED <<hasLeft, callVars>>
    \/ \E s \in SocketIds, r \in NamedRooms : JoinRoom(s, r) /\ UNCHANGED <<hasLeft, callVars>>
    \/ \E s \in SocketIds, r \in NamedRooms, d \in Payloads :
            Offer(s, r, d) /\ UNCHANGED <<hasLeft, callVars>>
    \/ \E s \in SocketIds, r \in NamedRooms, d \in Payloads :
            Answer(s, r, d) /\ UNCHANGED <<hasLeft, callVars>>
    \/ \E s \in SocketIds, r \in NamedRooms, d \in Payloads :
            IceCandidate(s, r, d) /\ UNCHANGED <<hasLeft, callVars>>
    \/ \E s \in SocketIds, r \in NamedRooms : LeaveRoom(s, r) /\ UNCHANGED <<hasLeft, callVars>>
    \/ \E s \in SocketIds : Disconnect(s) /\ UNCHANGED <<hasLeft, callVars>>

NextHistory ==
    \/ \E s \in SocketIds : Connect(s) /\ hasLeft' = TrackLeft /\ UNCHANGED callVars
    \/ \E s \in SocketIds, r \in NamedRooms : JoinRoom(s, r) /\ hasLeft' = TrackLeft /\ UNCHANGED callVars
    \/ \E s \in SocketIds, r \in NamedRooms, d \in Payloads :
            Offer(s, r, d) /\ hasLeft' = TrackLeft /\ UNCHANGED callVars
    \/ \E s \in SocketIds, r \in NamedRooms, d \in Payloads :
            Answer(s, r, d) /\ hasLeft' = TrackLeft /\ UNCHANGED callVars
    \/ \E s \in SocketIds, r \in NamedRooms, d \in Payloads :
            IceCandidate(s, r, d) /\ hasLeft' = TrackLeft /\ UNCHANGED callVars
    \/ \E s \in SocketIds, r \in NamedRooms : LeaveRoom(s, r) /\ hasLeft' = TrackLeft /\ UNCHANGED callVars
    \/ \E s \in SocketIds : Disconnect(s) /\ hasLeft' = TrackLeft /\ UNCHANGED callVars

\* The relay alone.
Spec == Init /\ [][Next]_vars
\* The relay with the history of explicit leaves recorded.
SpecHistory == Init /\ [][NextHistory]_vars

\* ================================================================ useWebRTC
\* The client of the relay (src/app/page.tsx): the hook useWebRTC at lines
\* 1267-1566 and the handlers of the page that drive it (lines 563-612).  A
\* callback of React keeps the values of the render that created it, so the
\* operators below take the captured values as parameters.  Each caller owns
\* one socket, whose id is the caller's number, and places one call.

\* A record of toRelay: an event the caller's socket emitted
Sent(ev, c, roomId) == <<Event(ev, c, roomId, 1)>>

Done(o, sent) == [o |-> o, sent |-> sent]

\* initializeSocket (lines 1287-1387); its handlers capture roomId
initializeSocket(o) ==
    IF o.socketRef THEN o
    ELSE [o EXCEPT !.socketRef = TRUE, !.link = "connecting",
                   !.handlerRoomId = o.roomId]

\* joinRoom (lines 1390-1412); seenConnected is the socketConnected it captured
joinRoomAgain(c, o, newRoomId, seenConnected) ==
    IF ~o.socketRef \/ ~seenConnected THEN Done(o, <<>>)
    ELSE Done([o EXCEPT !.currentRoomRef = newRoomId],
              (IF o.currentRoomRef # NoRoom /\ o.currentRoomRef # newRoomId
               THEN Sent("leave-room", c, o.currentRoomRef) ELSE <<>>)
              \o Sent("join-room", c, newRoomId))
joinRoom(c, o, newRoomId, seenConnected) ==
    IF ~o.socketRef \/ ~seenConnected THEN Done(o, <<>>)
    ELSE IF o.currentRoomRef = newRoomId THEN Done(o, <<>>)
    ELSE Done([o EXCEPT !.currentRoomRef = newRoomId],
              (IF o.currentRoomRef # NoRoom /\ o.currentRoomRef # newRoomId
               THEN Sent("leave-room", c, o.currentRoomRef) ELSE <<>>)
              \o Sent("join-room", c, newRoomId))

\* The effects of lines 1537-1548, run after a render that changed roomId or
\* socketConnected: initializeSocket, then joinRoom(roomId)
Effects(c, o) ==
    IF o.roomId = NoRoom THEN Done(o, <<>>)
    ELSE LET o1 == initializeSocket(o)
         IN  IF o1.socketConnected
             THEN joinRoom(c, o1, o1.roomId, o1.socketConnected)
             ELSE Done(o1, <<>>)

\* startCall (lines 1460-1493) up to setTimeout: the peer session, joinRoom of
\* the captured roomId, and the timer with the captured roomId and
\* remoteUsers.length
startCall(c, o, seenRoomId, seenConnected, seenLength) ==
    LET o1 == [o EXCEPT !.started = TRUE, !.localStreamRef = TRUE,
                        !.peerConnectionRef = TRUE, !.pcRoomId = seenRoomId,
                        !.signalingState = "stable",
                        !.localDescription = "none",
                        !.remoteDescription = "none", !.toDiscover = 0,
                        !.pcState = "new", !.sessionOffers = 0,
                        !.staleTimers =
                            IF o.timerArmed
                            THEN Append(@, [roomId |-> o.timerRoomId,
                                            observed |-> o.timerObserved])
                            ELSE @]
        j == joinRoom(c, o1, seenRoomId, seenConnected)
    IN  Done([j.o EXCEPT !.timerArmed = TRUE, !.timerRoomId = seenRoomId,
                         !.timerObserved = seenLength], j.sent)

\* What RTCPeerConnection accepts in each signaling state.  An offer that
\* meets a pending local offer is accepted by a platform that rolls the local
\* offer back and rejected by one that does not.
AcceptsOffer(o, rollback) ==
    \/ o.signalingState \in {"stable", "have-remote-offer"}
    \/ o.signalingState = "have-local-offer" /\ rollback
AcceptsAnswer(o) == o.signalingState = "have-local-offer"
AcceptsCandidate(o) == o.remoteDescription # "none"
AcceptsLocalAnswer(o) == o.signalingState = "have-remote-offer"
AcceptsLocalOffer(o) == o.signalingState \in {"stable", "have-local-offer"}

\* The timer callback of startCall (lines 1476-1480): the test of the captured
\* remoteUsers.length, then createOffer is awaited
OfferTimer(c, o) ==
    LET o1 == [o EXCEPT !.timerArmed = FALSE]
    IN  IF o.timerObserved = 0 /\ o.peerConnectionRef
        THEN Done([o1 EXCEPT !.offering = TRUE,
                             !.offeringRoomId = o.timerRoomId], <<>>)
        ELSE Done(o1, <<>>)

\* The same callback for the timer of an earlier startCall, which no
\* clearTimeout has cancelled: it tests the ref, not the session it was armed
\* for
StaleOfferTimer(c, o) ==
    LET timer == Head(o.staleTimers)
        o1 == [o EXCEPT !.staleTimers = Tail(@)]
    IN  IF timer.observed = 0 /\ o.peerConnectionRef
        THEN Done([o1 EXCEPT !.offering = TRUE,
                             !.offeringRoomId = timer.roomId], <<>>)
        ELSE Done(o1, <<>>)

\* The timer callback after createOffer (lines 1481-1490): the offer becomes
\* the local description and is emitted; a null peerConnectionRef or a
\* rejected setLocalDescription ends in the catch
OfferCreatedOnClosed(c, o) ==
    LET o1 == [o EXCEPT !.offering = FALSE, !.offeringRoomId = NoRoom]
    IN  IF AcceptsLocalOffer(o)
        THEN Done([o1 EXCEPT !.localDescription = "offer",
                             !.signalingState = "have-local-offer",
                             !.toDiscover = NumCandidates,
                             !.offered = o.socketRef \/ @,
                             !.sessionOffers = @ + 1],
                  IF o.socketRef THEN Sent("offer", c, o.offeringRoomId)
                  ELSE <<>>)
        ELSE Done(o1, <<>>)
OfferCreated(c, o) ==
    LET o1 == [o EXCEPT !.offering = FALSE, !.offeringRoomId = NoRoom]
    IN  IF o.peerConnectionRef /\ AcceptsLocalOffer(o)
        THEN Done([o1 EXCEPT !.localDescription = "offer",
                             !.signalingState = "have-local-offer",
                             !.toDiscover = NumCandidates,
                             !.offered = o.socketRef \/ @,
                             !.sessionOffers = @ + 1],
                  IF o.socketRef THEN Sent("offer", c, o.offeringRoomId)
                  ELSE <<>>)
        ELSE Done(o1, <<>>)

\* pc.onicecandidate (lines 1425-1433)
OnIceCandidateWithheld(c, o) ==
    Done([o EXCEPT !.toDiscover = @ - 1], <<>>)
OnIceCandidate(c, o) ==
    Done([o EXCEPT !.toDiscover = @ - 1],
         IF o.socketRef THEN Sent("ice-candidate", c, o.pcRoomId) ELSE <<>>)

\* leaveRoom (lines 1496-1502)
leaveRoomKeepingRef(c, o) ==
    IF o.socketRef /\ o.currentRoomRef # NoRoom
    THEN Done(o, Sent("leave-room", c, o.currentRoomRef))
    ELSE Done(o, <<>>)
leaveRoom(c, o) ==
    IF o.socketRef /\ o.currentRoomRef # NoRoom
    THEN Done([o EXCEPT !.currentRoomRef = NoRoom],
              Sent("leave-room", c, o.currentRoomRef))
    ELSE Done(o, <<>>)

\* cleanup (lines 1505-1534): leaveRoom, then the stream, the peer session and
\* the socket are released and the state is reset
cleanupKeepingUsers(c, o) ==
    LET l == leaveRoom(c, o)
    IN  Done([l.o EXCEPT !.localStreamRef = FALSE, !.peerConnectionRef = FALSE,
                         !.toDiscover = 0, !.pcRoomId = NoRoom,
                         !.signalingState = "stable",
                         !.localDescription = "none",
                         !.remoteDescription = "none", !.pcState = "new",
                         !.sessionOffers = 0,
                         !.isConnected = FALSE, !.connectionState = "new",
                         !.socketRef = FALSE,
                         !.link = IF l.o.socketRef THEN "closed" ELSE @,
                         !.socketConnected = FALSE,
                         !.currentRoomRef = NoRoom],
             l.sent)
cleanup(c, o) ==
    LET l == leaveRoom(c, o)
    IN  Done([l.o EXCEPT !.localStreamRef = FALSE, !.peerConnectionRef = FALSE,
                         !.toDiscover = 0, !.pcRoomId = NoRoom,
                         !.signalingState = "stable",
                         !.localDescription = "none",
                         !.remoteDescription = "none", !.pcState = "new",
                         !.sessionOffers = 0,
                         !.isConnected = FALSE, !.connectionState = "new",
                         !.socketRef = FALSE,
                         !.link = IF l.o.socketRef THEN "closed" ELSE @,
                         !.remoteUsers = <<>>, !.socketConnected = FALSE,
                         !.currentRoomRef = NoRoom],
             l.sent)

\* The handlers initializeSocket registers on the socket (lines 1320-1384).
\* m is the emit of the relay being handled; rollback tells whether the
\* platform resolves an offer that meets a pending local offer by rolling the
\* local offer back (otherwise setRemoteDescription rejects and the handler's
\* catch logs the error).
OnUserJoinedOffering(o, m) ==
    IF \E i \in DOMAIN o.remoteUsers : o.remoteUsers[i] = m.data THEN o
    ELSE [o EXCEPT !.remoteUsers = Append(@, m.data),
                   !.offering = o.peerConnectionRef]
OnUserJoined(o, m) ==
    IF \E i \in DOMAIN o.remoteUsers : o.remoteUsers[i] = m.data THEN o
    ELSE [o EXCEPT !.remoteUsers = Append(@, m.data)]

OnUserLeft(o, m) ==
    [o EXCEPT !.remoteUsers = SelectSeq(@, LAMBDA id : id # m.data)]

\* onRoomFull of the page (lines 509-514)
OnRoomFull(o) == [o EXCEPT !.roomFull = TRUE, !.isInCall = FALSE]

\* socket.on('offer') up to the end of setRemoteDescription (lines 1340-1345)
OnOffer(c, o, rollback) ==
    IF ~o.peerConnectionRef THEN Done(o, <<>>)
    ELSE IF ~AcceptsOffer(o, rollback) THEN Done(o, <<>>)
    ELSE Done([o EXCEPT !.remoteDescription = "offer",
                        !.signalingState = "have-remote-offer",
                        !.answering = @ + 1], <<>>)

\* socket.on('offer') from createAnswer on (lines 1346-1353), on the session
\* peerConnectionRef holds by then
OnOfferResumed(c, o) ==
    LET o1 == [o EXCEPT !.answering = @ - 1]
    IN  IF o.peerConnectionRef /\ AcceptsLocalAnswer(o)
        THEN Done([o1 EXCEPT !.localDescription = "answer",
                             !.signalingState = "stable",
                             !.toDiscover = IF o.localDescription = "none"
                                            THEN NumCandidates ELSE @],
                  Sent("answer", c, o.handlerRoomId))
        ELSE Done(o1, <<>>)

OnAnswer(o) ==
    IF o.peerConnectionRef /\ AcceptsAnswer(o)
    THEN [o EXCEPT !.remoteDescription = "answer", !.signalingState = "stable"]
    ELSE o

\* addIceCandidate rejects while the session has no remote description; the
\* catch logs the error and the candidate is gone
OnIceCandidateReceived(o) ==
    IF ~o.peerConnectionRef THEN o
    ELSE [o EXCEPT !.iceReceived = @ + 1,
                   !.iceApplied = IF AcceptsCandidate(o) THEN @ + 1 ELSE @]

OnMessage(c, o, m, rollback) ==
    CASE m.event = "user-joined" -> Done(OnUserJoined(o, m), <<>>)
      [] m.event = "user-left" -> Done(OnUserLeft(o, m), <<>>)
      [] m.event = "room-info" -> Done(o, <<>>)
      [] m.event = "room-full" -> Done(OnRoomFull(o), <<>>)
      [] m.event = "offer" -> OnOffer(c, o, rollback)
      [] m.event = "answer" -> Done(OnAnswer(o), <<>>)
      [] m.event = "ice-candidate" -> Done(OnIceCandidateReceived(o), <<>>)

\* socket.on('connect') (lines 1298-1307)
OnConnect(c, o) ==
    LET o1 == [o EXCEPT !.link = "up", !.socketConnected = TRUE]
    IN  IF o.handlerRoomId # NoRoom /\ o.currentRoomRef # o.handlerRoomId
        THEN Done([o1 EXCEPT !.currentRoomRef = o.handlerRoomId],
                  Sent("join-room", c, o.handlerRoomId))
        ELSE Done(o1, <<>>)

\* socket.on('disconnect') (lines 1309-1313)
OnDisconnect(o) ==
    [o EXCEPT !.link = "closed", !.socketConnected = FALSE,
              !.currentRoomRef = NoRoom]

\* ------------------------------------------------------------ caller steps
\* socket.emit: buffered while the socket connects, sent while it is up
Push(c, sent) ==
    IF orch[c].link \in {"connecting", "up"} THEN toRelay[c] \o sent
    ELSE toRelay[c]

CallerStep(c, r) ==
    /\ orch' = [orch EXCEPT ![c] = r.o]
    /\ toRelay' = [toRelay EXCEPT ![c] = Push(c, r.sent)]
    /\ UNCHANGED <<status, rooms, activeUsers, outbox, last, hasLeft, inbox, notices,
                   peerBudget>>

\* The page is in the lobby, its socket, if any, has not gone, and the delay
\* of an earlier startCall has elapsed
InLobby(o) ==
    ~o.isInCall /\ o.link # "closed" /\ ~o.timerArmed /\ ~o.offering

\* handleRoomIdChange (lines 664-672): a room code is entered
HandleRoomIdChange(c, newRoomId) ==
    /\ InLobby(orch[c]) /\ orch[c].roomId = NoRoom
    /\ CallerStep(c, Effects(c, [orch[c] EXCEPT !.roomId = newRoomId]))

\* startNewCall (lines 563-581): setRoomId re-renders and runs the effects
\* while startLocalStream is awaited; startCall is the one of the render in
\* which the button was clicked
StartNewCall(c, newRoomId) ==
    LET o == orch[c]
        e == Effects(c, [o EXCEPT !.roomId = newRoomId, !.isInCall = TRUE,
                                  !.roomFull = FALSE])
        s == startCall(c, e.o, o.roomId, o.socketConnected, Len(o.remoteUsers))
    IN  /\ InLobby(o)
        /\ newRoomId # o.roomId
        /\ rooms[newRoomId] = {}
        /\ \A b \in Callers : orch[b].roomId # newRoomId
        /\ CallerStep(c, Done(s.o, e.sent \o s.sent))

\* joinCall (lines 584-600)
JoinCall(c) ==
    LET o == orch[c]
    IN  /\ InLobby(o)
        /\ o.roomId # NoRoom /\ ~o.roomFull
        /\ CallerStep(c, startCall(c, [o EXCEPT !.isInCall = TRUE], o.roomId,
                                   o.socketConnected, Len(o.remoteUsers)))

\* The transport connects: the relay's connection handler, the 'connect'
\* handler of the client and the effects of the render that follows
SocketConnect(c) ==
    LET h == OnConnect(c, orch[c])
        e == Effects(c, h.o)
    IN  /\ orch[c].link = "connecting"
        /\ Connect(c)
        /\ orch' = [orch EXCEPT ![c] = e.o]
        /\ toRelay' = [toRelay EXCEPT ![c] = Push(c, h.sent \o e.sent)]
        /\ UNCHANGED <<hasLeft, inbox, notices, peerBudget>>

TimerFires(c) ==
    /\ orch[c].timerArmed /\ orch[c].staleTimers = <<>>
    /\ CallerStep(c, OfferTimer(c, orch[c]))

\* createOffer resolves and the timer callback goes on
OfferTimerResumes(c) ==
    /\ orch[c].offering
    /\ CallerStep(c, OfferCreated(c, orch[c]))

\* setRemoteDescription resolves and a suspended offer handler goes on
OfferHandlerResumes(c) ==
    /\ orch[c].answering > 0
    /\ CallerStep(c, OnOfferResumed(c, orch[c]))

LocalCandidate(c) ==
    /\ orch[c].peerConnectionRef /\ orch[c].toDiscover > 0
    /\ CallerStep(c, OnIceCandidate(c, orch[c]))

\* The client handles the next event the relay sent it
Receive(c) ==
    /\ orch[c].link = "up" /\ inbox[c] # <<>>
    /\ \E rollback \in BOOLEAN :
        /\ rollback \/ (Head(inbox[c]).event = "offer"
                        /\ orch[c].peerConnectionRef
                        /\ orch[c].signalingState = "have-local-offer")
        /\ LET r == OnMessage(c, orch[c], Head(inbox[c]), rollback)
           IN  /\ orch' = [orch EXCEPT ![c] = r.o]
               /\ toRelay' = [toRelay EXCEPT ![c] = Push(c, r.sent)]
    /\ inbox' = [inbox EXCEPT ![c] = Tail(@)]
    /\ UNCHANGED <<status, rooms, activeUsers, outbox, last, hasLeft, notices,
                   peerBudget>>

\* endCall (lines 603-612), and the unmount of the page (lines 656-661):
\* leaveRoom(), then cleanup().  socket.disconnect() of a socket that never
\* connected discards what it buffered.
EndCall(c) ==
    LET o == orch[c]
        l == leaveRoom(c, o)
        k == cleanup(c, l.o)
        bye == IF o.socketRef THEN <<Event("disconnect", c, NoRoom, 0)>> ELSE <<>>
    IN  /\ o.isInCall \/ (o.socketRef /\ o.link # "closed")
        /\ orch' = [orch EXCEPT ![c] = [k.o EXCEPT !.isInCall = FALSE,
                                                    !.roomId = NoRoom]]
        /\ toRelay' = [toRelay EXCEPT ![c] =
                          IF o.link = "up" THEN @ \o l.sent \o k.sent \o bye
                          ELSE IF o.link = "connecting" THEN <<>> ELSE @]
        /\ inbox' = [inbox EXCEPT ![c] = <<>>]
        /\ UNCHANGED <<status, rooms, activeUsers, outbox, last, hasLeft, notices,
                   peerBudget>>

\* The transport drops: the relay will see a disconnect, the client's
\* 'disconnect' handler runs
TransportDrop(c) ==
    /\ orch[c].link = "up"
    /\ orch' = [orch EXCEPT ![c] = OnDisconnect(@)]
    /\ toRelay' = [toRelay EXCEPT ![c] = @ \o <<Event("disconnect", c, NoRoom, 0)>>]
    /\ inbox' = [inbox EXCEPT ![c] = <<>>]
    /\ UNCHANGED <<status, rooms, activeUsers, outbox, last, hasLeft, notices,
                   peerBudget>>

\* ------------------------------------------------------------- relay steps
\* The relay handles the next event of caller c's socket.  What the handler
\* emits reaches the callers whose transport is up, in the order of the emits.
SentTo(box, b) == SelectSeq(box, LAMBDA e : b \in e.to)

Deliver(box) ==
    [b \in Callers |-> IF orch[b].link = "up" THEN inbox[b] \o SentTo(box, b)
                       ELSE inbox[b]]

Count(box, b, ev) == Len(SelectSeq(SentTo(box, b), LAMBDA e : e.event = ev))

\* The history of the notices: what the run of a handler for an event of
\* socket a delivers to the other callers, counted since a was last admitted
\* to a room
TrackNotices(a, box) ==
    [b \in Callers |->
        IF b = a THEN notices[b]
        ELSE IF \E i \in DOMAIN box : box[i].event = "user-joined"
        THEN [notices[b] EXCEPT ![a] = NoNotice]
        ELSE IF orch[b].link # "up" THEN notices[b]
        ELSE [notices[b] EXCEPT ![a] =
                 [userLeft |-> @.userLeft + Count(box, b, "user-left"),
                  roomInfo |-> @.roomInfo + Count(box, b, "room-info")]]]

Dispatched(c, ev) ==
    /\ toRelay[c] # <<>>
    /\ Head(toRelay[c]).event = ev

Handled(c) ==
    /\ toRelay' = [toRelay EXCEPT ![c] = Tail(@)]
    /\ inbox' = Deliver(outbox')
    /\ notices' = TrackNotices(c, outbox')
    /\ UNCHANGED <<hasLeft, orch, peerBudget>>

RelayJoinRoom(c) ==
    /\ Dispatched(c, "join-room")
    /\ JoinRoom(c, Head(toRelay[c]).roomId)
    /\ Handled(c)

RelayOffer(c) ==
    /\ Dispatched(c, "offer")
    /\ Offer(c, Head(toRelay[c]).roomId, Head(toRelay[c]).data)
    /\ Handled(c)

RelayAnswer(c) ==
    /\ Dispatched(c, "answer")
    /\ Answer(c, Head(toRelay[c]).roomId, Head(toRelay[c]).data)
    /\ Handled(c)

RelayIceCandidate(c) ==
    /\ Dispatched(c, "ice-candidate")
    /\ IceCandidate(c, Head(toRelay[c]).roomId, Head(toRelay[c]).data)
    /\ Handled(c)

RelayLeaveRoom(c) ==
    /\ Dispatched(c, "leave-room")
    /\ LeaveRoom(c, Head(toRelay[c]).roomId)
    /\ Handled(c)

RelayDisconnect(c) ==
    /\ Dispatched(c, "disconnect")
    /\ Disconnect(c)
    /\ Handled(c)

\* ---------------------------------------------------------------- NextCall
NextCall ==
    \/ \E c \in Callers, r \in CallRooms : HandleRoomIdChange(c, r)
    \/ \E c \in Callers, r \in CallRooms : StartNewCall(c, r)
    \/ \E c \in Callers : JoinCall(c)
    \/ \E c \in Callers : SocketConnect(c)
    \/ \E c \in Callers : TimerFires(c)
    \/ \E c \in Callers : OfferTimerResumes(c)
    \/ \E c \in Callers : OfferHandlerResumes(c)
    \/ \E c \in Callers : LocalCandidate(c)
    \/ \E c \in Callers : Receive(c)
    \/ \E c \in Callers : EndCall(c)
    \/ \E c \in Callers : TransportDrop(c)
    \/ \E c \in Callers : RelayJoinRoom(c)
    \/ \E c \in Callers : RelayOffer(c)
    \/ \E c \in Callers : RelayAnswer(c)
    \/ \E c \in Callers : RelayIceCandidate(c)
    \/ \E c \in Callers : RelayLeaveRoom(c)
    \/ \E c \in Callers : RelayDisconnect(c)

\* Callers and the relay together
SpecCall == Init /\ [][NextCall]_vars

\* ------------------------------------------------------------ vocabulary
\* The sockets the emits of a handler run are delivered to.
Recipients(box) == UNION {box[i].to : i \in DOMAIN box}

\* The emits of a handler run that are delivered to socket p.
DeliveredTo(box, p) == {i \in DOMAIN box : p \in box[i].to}

\* Socket p is delivered event ev carrying data d.
Receives(box, p, ev, d) ==
    \E i \in DeliveredTo(box, p) : box[i].event = ev /\ box[i].data = d

\* The client-named rooms socket s is a member of.
RoomsOf(rms, s) == {r \in NamedRooms : s \in rms[r]}

\* The only emit is room-full to socket s.
OnlyRoomFullTo(box, s) ==
    /\ Len(box) = 1
    /\ box[1].event = "room-full"
    /\ box[1].to = {s}

\* ------------------------------------------------------------------ claims

\* C1: in every reachable state every room has at most 2 members, whatever
\* interleaving of join-room, leave-room, envelopes and disconnects produced
\* it; a join-room that finds the room at 2 members is not admitted.
C1_RoomCapacity == \A r \in RoomIds : Cardinality(rooms[r]) <= 2

\* C1 witness: a third socket's join-room arrived right after the join that
\* filled the room, and was answered with room-full.
C1_Witness ==
    /\ last.event = "join-room"
    /\ OnlyRoomFullTo(outbox, last.socket)
    /\ last.socket \notin rooms[last.roomId]
    /\ Cardinality(rooms[last.roomId]) = 2

\* C2: a join-room for a room that already has 2 members sends room-full to
\* the joiner and nothing else, and changes neither the membership of any
\* room nor the tracking map.
C2_FullJoinChangesNothing ==
    [][(last'.event = "join-room" /\ Cardinality(rooms[last'.roomId]) >= 2)
        => /\ OnlyRoomFullTo(outbox', last'.socket)
           /\ rooms' = rooms
           /\ activeUsers' = activeUsers]_vars

\* C2 witness: the rejected joiner occupies another room, which has a second
\* member.
C2_Witness ==
    /\ last.event = "join-room"
    /\ OnlyRoomFullTo(outbox, last.socket)
    /\ activeUsers[last.socket] \in NamedRooms \ {last.roomId}
    /\ Cardinality(rooms[activeUsers[last.socket]]) = 2
    /\ last.socket \in rooms[activeUsers[last.socket]]

\* C3: no socket is a member of two client-named rooms at the same time.
C3_AtMostOneRoom == \A s \in SocketIds : Cardinality(RoomsOf(rooms, s)) <= 1

\* C4: once socket A has left room R by leave-room (and has not joined R
\* since), no envelope A sends with roomId R is delivered to anyone.
C4_NoDeliveryAfterLeave ==
    (last.event \in Kinds /\ <<last.socket, last.roomId>> \in hasLeft)
        => Recipients(outbox) = {}

\* C5: an envelope sent by a socket that is not a member of the room it names
\* is delivered to nobody.
C5_NoDeliveryFromNonMember ==
    [][(last'.event \in Kinds /\ last'.socket \notin rooms[last'.roomId])
        => Recipients(outbox') = {}]_vars

\* C6: an offer, answer or ice-candidate is never delivered to the socket that
\* sent it.
C6_NeverBackToSender ==
    \A i \in DOMAIN outbox :
        outbox[i].event \in Kinds => last.socket \notin outbox[i].to

\* C6 witness: a member relayed an envelope for its own room and another
\* member received it.
C6_Witness ==
    /\ last.event \in Kinds
    /\ last.socket \in rooms[last.roomId]
    /\ Recipients(outbox) # {}

\* C7: when member S of room R relays an envelope for R, each other member of
\* R is delivered exactly one emit, of the kind sent, with the payload sent
\* and from = S; nobody outside R is delivered anything; rooms and tracking
\* are unchanged.
C7_RelayToOtherMembers ==
    [][(last'.event \in Kinds /\ last'.socket \in rooms[last'.roomId])
        => /\ \A p \in rooms[last'.roomId] \ {last'.socket} :
                /\ Cardinality(DeliveredTo(outbox', p)) = 1
                /\ \A i \in DeliveredTo(outbox', p) :
                      /\ outbox'[i].event = last'.event
                      /\ outbox'[i].data = last'.data
                      /\ outbox'[i].from = last'.socket
           /\ \A p \in SocketIds \ rooms[last'.roomId] : DeliveredTo(outbox', p) = {}
           /\ rooms' = rooms
           /\ activeUsers' = activeUsers]_vars

\* C7 witness: a member of a two-member room relayed an envelope while a
\* third socket was connected outside the room.
C7_Witness ==
    /\ last.event \in Kinds
    /\ last.socket \in rooms[last.roomId]
    /\ Cardinality(rooms[last.roomId]) = 2
    /\ \E p \in SocketIds : status[p] = "connected" /\ p \notin rooms[last.roomId]
    /\ Recipients(outbox) = rooms[last.roomId] \ {last.socket}

\* C8: a leave-room for room R from a socket that is not a member of R is
\* delivered to nobody as user-left or room-info and changes neither the
\* rooms nor the tracking map.
C8_LeaveOfNonMemberIsNoOp ==
    [][(last'.event = "leave-room" /\ last'.socket \notin rooms[last'.roomId])
        => /\ Recipients(outbox') = {}
           /\ rooms' = rooms
           /\ activeUsers' = activeUsers]_vars

\* C9: a join-room is answered with room-full exactly when the room has 2
\* members and the joiner is not one of them.
C9_RoomFullExactly ==
    [][last'.event = "join-room"
        => ((\E i \in DOMAIN outbox' : outbox'[i].event = "room-full")
            <=> (/\ Cardinality(rooms[last'.roomId]) >= 2
                 /\ last'.socket \notin rooms[last'.roomId]))]_vars

\* C10: when a member of room R disconnects, every remaining member of R is
\* delivered user-left with the socket's id and room-info with the remaining
\* occupancy.
C10_DisconnectNotifiesRoom ==
    [][last'.event = "disconnect"
        => \A r \in RoomsOf(rooms, last'.socket) :
             \A p \in rooms[r] \ {last'.socket} :
                /\ Receives(outbox', p, "user-left", last'.socket)
                /\ Receives(outbox', p, "room-info",
                            Cardinality(rooms[r] \ {last'.socket}))]_vars

\* The emits of a handler run, of event ev, that are delivered to socket p.
DeliveredOf(box, p, ev) == {i \in DeliveredTo(box, p) : box[i].event = ev}

\* The last join-room was admitted (not answered with room-full).
Admitted(box) == \A i \in DOMAIN box : box[i].event # "room-full"

\* C12: on an admitted join-room for room R every other member of R is
\* delivered exactly one user-joined, carrying the joiner's id; the joiner is
\* delivered no user-joined and exactly one room-info, whose numUsers is the
\* occupancy of R after the join.
C12_JoinNotifications ==
    [][(last'.event = "join-room" /\ Admitted(outbox'))
        => LET s == last'.socket
               r == last'.roomId
           IN  /\ s \in rooms'[r]
               /\ \A p \in rooms'[r] \ {s} :
                    /\ Cardinality(DeliveredOf(outbox', p, "user-joined")) = 1
                    /\ Receives(outbox', p, "user-joined", s)
               /\ DeliveredOf(outbox', s, "user-joined") = {}
               /\ Cardinality(DeliveredOf(outbox', s, "room-info")) = 1
               /\ Receives(outbox', s, "room-info", Cardinality(rooms'[r]))]_vars

\* C12 witness: the second joiner was admitted and told numUsers 2, the first
\* member was told of it.
C12_Witness ==
    /\ last.event = "join-room"
    /\ Admitted(outbox)
    /\ Cardinality(rooms[last.roomId]) = 2
    /\ Receives(outbox, last.socket, "room-info", 2)
    /\ \E p \in rooms[last.roomId] \ {last.socket} :
          Receives(outbox, p, "user-joined", last.socket)

\* C13: after a leave-room for R from a member of R the socket is not a
\* member of R, every remaining member is delivered user-left with its id and
\* room-info with the remaining occupancy, and the leaver is delivered nothing.
C13_LeaveNotifications ==
    [][(last'.event = "leave-room" /\ last'.socket \in rooms[last'.roomId])
        => LET s == last'.socket
               r == last'.roomId
           IN  /\ s \notin rooms'[r]
               /\ rooms'[r] = rooms[r] \ {s}
               /\ \A p \in rooms'[r] :
                    /\ Receives(outbox', p, "user-left", s)
                    /\ Receives(outbox', p, "room-info", Cardinality(rooms'[r]))
               /\ DeliveredTo(outbox', s) = {}]_vars

\* C13 witness: one of two members left and the other was told so.
C13_Witness ==
    /\ last.event = "leave-room"
    /\ Cardinality(rooms[last.roomId]) = 1
    /\ last.socket \notin rooms[last.roomId]
    /\ \E p \in rooms[last.roomId] :
          /\ Receives(outbox, p, "user-left", last.socket)
          /\ Receives(outbox, p, "room-info", 1)

C15_NoStoredEnvelopes ==
    [][\A i \in DOMAIN outbox' :
          outbox'[i].event \in Kinds
            => /\ last'.event = outbox'[i].event
               /\ outbox'[i].to = rooms[last'.roomId] \ {last'.socket}
               /\ outbox'[i].from = last'.socket
               /\ outbox'[i].data = last'.data]_vars

\* C15 witness: the only member of a room relayed an envelope for it, and it
\* was delivered to nobody.
C15_Witness ==
    /\ last.event \in Kinds
    /\ rooms[last.roomId] = {last.socket}
    /\ Recipients(outbox) = {}

\* C16: a socket that is not connected has no tracking entry and is a member
\* of no room.
C16_NoStateForDisconnected ==
    \A s \in SocketIds :
        status[s] # "connected"
          => /\ activeUsers[s] = NoRoom
             /\ \A r \in RoomIds : s \notin rooms[r]

\* C16 witness: a socket with a tracking entry and a room-mate disconnected.
C16_Witness ==
    /\ last.event = "disconnect"
    /\ status[last.socket] = "closed"
    /\ Recipients(outbox) # {}

\* C17: a join-room for a room with fewer than 2 members is admitted: no
\* room-full, the joiner is a member afterwards and is told the occupancy
\* counted from the members the room has now (1 for an emptied room).
C17_FreeSlotIsReusable ==
    [][(last'.event = "join-room" /\ Cardinality(rooms[last'.roomId]) < 2)
        => /\ Admitted(outbox')
           /\ last'.socket \in rooms'[last'.roomId]
           /\ Receives(outbox', last'.socket, "room-info",
                       Cardinality(rooms[last'.roomId] \cup {last'.socket}))]_vars

\* C17 witness: a socket was admitted to a room that another socket had left
\* by leave-room, after an earlier join of a third socket had been possible.
C17_Witness ==
    /\ last.event = "join-room"
    /\ Admitted(outbox)
    /\ last.socket \in rooms[last.roomId]
    /\ Cardinality(rooms[last.roomId]) = 2
    /\ \E t \in SocketIds \ {last.socket} : <<t, last.roomId>> \in hasLeft

\* ================================================= one client among others
\* One client, Hook, whose page may also be unmounted, whose socket may
\* reconnect and whose peer session reports its connection state, next to the
\* sockets of other clients, of which only what they send to the relay is
\* modelled.
Hook == 1
Peers == SocketIds \ {Hook}

\* pc.onconnectionstatechange (lines 1440-1446)
OnConnectionStateChange(o, state) ==
    [o EXCEPT !.pcState = state, !.connectionState = state,
              !.isConnected = (state = "connected"),
              !.stateCallbacks = @ + 1, !.callbackState = state]

\* The connection states an RTCPeerConnection may report next
NextPcStates(o) ==
    CASE o.pcState = "new" -> {"connecting"}
      [] o.pcState = "connecting" -> {"connected", "failed"}
      [] o.pcState = "connected" -> {"disconnected"}
      [] o.pcState = "disconnected" -> {"connected", "failed"}
      [] OTHER -> {}

\* The peer session, with both descriptions set, reports a transition
PcStateChange(c) ==
    /\ orch[c].peerConnectionRef
    /\ orch[c].localDescription # "none" /\ orch[c].remoteDescription # "none"
    /\ orch[c].stateCallbacks < MaxReports
    /\ \E state \in NextPcStates(orch[c]) :
          CallerStep(c, Done(OnConnectionStateChange(orch[c], state), <<>>))

\* socket.io connects the dropped socket again, once the relay has seen the
\* drop: the relay's connection handler, then the 'connect' handler and the
\* effects as in SocketConnect.  The relay keeps nothing of a closed socket,
\* so the socket keeps its number here although socket.io gives it a new id.
Reconnect(c) ==
    LET h == OnConnect(c, orch[c])
        e == Effects(c, h.o)
    IN  /\ orch[c].link = "closed" /\ orch[c].socketRef
        /\ status[c] = "closed"
        /\ status' = [status EXCEPT ![c] = "connected"]
        /\ rooms' = SocketJoin(rooms, c, c)
        /\ outbox' = <<>>
        /\ last' = Event("connection", c, NoRoom, 0)
        /\ orch' = [orch EXCEPT ![c] = e.o]
        /\ toRelay' = [toRelay EXCEPT ![c] = @ \o h.sent \o e.sent]
        /\ UNCHANGED <<activeUsers, hasLeft, inbox, notices, peerBudget>>

\* The page is unmounted: the cleanup of the hook's effect (lines 1551-1555)
\* runs cleanup(), then the one of the page (lines 656-661) runs leaveRoom()
\* and cleanup()
Unmount(c) ==
    LET o == orch[c]
        k1 == cleanup(c, o)
        l == leaveRoom(c, k1.o)
        k2 == cleanup(c, l.o)
        bye == <<Event("disconnect", c, NoRoom, 0)>>
    IN  /\ o.socketRef
        /\ orch' = [orch EXCEPT ![c] = [k2.o EXCEPT !.isInCall = FALSE]]
        /\ toRelay' = [toRelay EXCEPT ![c] =
                          IF o.link = "up"
                          THEN @ \o k1.sent \o l.sent \o k2.sent \o bye
                          ELSE IF o.link = "connecting" THEN <<>> ELSE @]
        /\ inbox' = [inbox EXCEPT ![c] = <<>>]
        /\ UNCHANGED <<status, rooms, activeUsers, outbox, last, hasLeft, notices,
                       peerBudget>>

\* A handler of the relay runs for an event of another client's socket
PeerStep ==
    /\ inbox' = Deliver(outbox')
    /\ UNCHANGED <<hasLeft, orch, toRelay, notices>>

PeerConnect(p) ==
    /\ \A q \in Peers : q < p => status[q] # "idle"
    /\ Connect(p)
    /\ PeerStep /\ UNCHANGED peerBudget

PeerJoinRoom(p, r) ==
    /\ activeUsers[p] = NoRoom
    /\ JoinRoom(p, r)
    /\ PeerStep /\ UNCHANGED peerBudget

PeerEnvelope(kind, p, r) ==
    /\ peerBudget > 0
    /\ p \in rooms[r]
    /\ Relay(kind, p, r, 1)
    /\ PeerStep
    /\ peerBudget' = peerBudget - 1

NextHook ==
    \/ \E r \in CallRooms : HandleRoomIdChange(Hook, r)
    \/ \E r \in NamedRooms : StartNewCall(Hook, r)
    \/ JoinCall(Hook)
    \/ SocketConnect(Hook)
    \/ TimerFires(Hook)
    \/ OfferTimerResumes(Hook)
    \/ OfferHandlerResumes(Hook)
    \/ LocalCandidate(Hook)
    \/ Receive(Hook)
    \/ PcStateChange(Hook)
    \/ EndCall(Hook)
    \/ Unmount(Hook)
    \/ TransportDrop(Hook)
    \/ Reconnect(Hook)
    \/ RelayJoinRoom(Hook)
    \/ RelayOffer(Hook)
    \/ RelayAnswer(Hook)
    \/ RelayIceCandidate(Hook)
    \/ RelayLeaveRoom(Hook)
    \/ RelayDisconnect(Hook)
    \/ \E p \in Peers : PeerConnect(p)
    \/ \E p \in Peers, r \in CallRooms : PeerJoinRoom(p, r)
    \/ \E p \in Peers, r \in CallRooms : PeerEnvelope("offer", p, r)
    \/ \E p \in Peers, r \in CallRooms : PeerEnvelope("answer", p, r)
    \/ \E p \in Peers, r \in CallRooms : PeerEnvelope("ice-candidate", p, r)

SpecHook == Init /\ [][NextHook]_vars

\* ================================================ a call after a call
\* One client that ends a call and starts another: endCall leaves the timer of
\* its startCall pending, and the socket of the new call is a new connection
\* of the relay.

\* startNewCall (lines 563-581) after endCall: the effects create a socket, and
\* startCall is the one of the render in which the button was clicked
StartAgain(c, newRoomId) ==
    LET o == orch[c]
        e == Effects(c, [o EXCEPT !.roomId = newRoomId, !.isInCall = TRUE,
                                  !.roomFull = FALSE])
        s == startCall(c, e.o, o.roomId, o.socketConnected, Len(o.remoteUsers))
    IN  /\ ~o.socketRef /\ o.link = "closed"
        /\ ~o.isInCall /\ o.roomId = NoRoom
        /\ ~o.offering /\ o.answering = 0
        /\ Len(o.staleTimers) < MaxStaleTimers
        /\ status[c] = "closed" /\ toRelay[c] = <<>>
        /\ rooms[newRoomId] = {}
        /\ orch' = [orch EXCEPT ![c] = s.o]
        /\ toRelay' = [toRelay EXCEPT ![c] = e.sent \o s.sent]
        /\ UNCHANGED <<status, rooms, activeUsers, outbox, last, hasLeft, inbox,
                       notices, peerBudget>>

\* The socket of the new call connects
SocketConnectAgain(c) ==
    LET h == OnConnect(c, orch[c])
        e == Effects(c, h.o)
    IN  /\ orch[c].link = "connecting" /\ status[c] = "closed"
        /\ status' = [status EXCEPT ![c] = "connected"]
        /\ rooms' = SocketJoin(rooms, c, c)
        /\ outbox' = <<>>
        /\ last' = Event("connection", c, NoRoom, 0)
        /\ orch' = [orch EXCEPT ![c] = e.o]
        /\ toRelay' = [toRelay EXCEPT ![c] = @ \o h.sent \o e.sent]
        /\ UNCHANGED <<activeUsers, hasLeft, inbox, notices, peerBudget>>

\* The timer of an earlier startCall fires
StaleTimerFires(c) ==
    /\ orch[c].staleTimers # <<>> /\ ~orch[c].offering
    /\ CallerStep(c, StaleOfferTimer(c, orch[c]))

NextRestart ==
    \/ \E r \in CallRooms : HandleRoomIdChange(Hook, r)
    \/ \E r \in NamedRooms : StartNewCall(Hook, r)
    \/ JoinCall(Hook)
    \/ SocketConnect(Hook)
    \/ TimerFires(Hook)
    \/ StaleTimerFires(Hook)
    \/ OfferTimerResumes(Hook)
    \/ LocalCandidate(Hook)
    \/ Receive(Hook)
    \/ EndCall(Hook)
    \/ \E r \in NamedRooms : StartAgain(Hook, r)
    \/ SocketConnectAgain(Hook)
    \/ RelayJoinRoom(Hook)
    \/ RelayOffer(Hook)
    \/ RelayIceCandidate(Hook)
    \/ RelayLeaveRoom(Hook)
    \/ RelayDisconnect(Hook)

SpecRestart == Init /\ [][NextRestart]_vars

\* ================================================== a call of two clients
\* Caller 1 starts a call alone; caller 2 enters the code of the room and
\* joins the call once the offer timer of caller 1 has run.  Nobody leaves
\* and no transport drops.
Alone == 1
Later == 2

\* Caller 1 is in room r with a call started whose offer timer has run
WaitsIn(r) ==
    /\ orch[Alone].started /\ ~orch[Alone].timerArmed /\ ~orch[Alone].offering
    /\ Alone \in rooms[r] /\ toRelay[Alone] = <<>>

\* Caller 2 enters the code of the room caller 1 waits in
JoinsLater(r) == WaitsIn(r) /\ HandleRoomIdChange(Later, r)

\* What happens without a click: the socket, the timer, the promises, the
\* peer session and the relay
Unattended(c) ==
    \/ SocketConnect(c)
    \/ TimerFires(c)
    \/ OfferTimerResumes(c)
    \/ OfferHandlerResumes(c)
    \/ LocalCandidate(c)
    \/ Receive(c)
    \/ RelayJoinRoom(c)
    \/ RelayOffer(c)
    \/ RelayAnswer(c)
    \/ RelayIceCandidate(c)

NextPair ==
    \/ \E r \in CallRooms : HandleRoomIdChange(Alone, r)
    \/ \E r \in CallRooms : StartNewCall(Alone, r)
    \/ JoinCall(Alone)
    \/ \E r \in CallRooms : JoinsLater(r)
    \/ JoinCall(Later)
    \/ \E c \in Callers : SocketConnect(c)
    \/ \E c \in Callers : TimerFires(c)
    \/ \E c \in Callers : OfferTimerResumes(c)
    \/ \E c \in Callers : OfferHandlerResumes(c)
    \/ \E c \in Callers : LocalCandidate(c)
    \/ \E c \in Callers : Receive(c)
    \/ \E c \in Callers : RelayJoinRoom(c)
    \/ \E c \in Callers : RelayOffer(c)
    \/ \E c \in Callers : RelayAnswer(c)
    \/ \E c \in Callers : RelayIceCandidate(c)

\* A socket that connects, a timer that is armed, a promise that is pending
\* and an event that is queued are not delayed for ever
PairFairness == \A c \in Callers : WF_vars(Unattended(c))

SpecPair == Init /\ [][NextPair]_vars /\ PairFairness

\* ------------------------------------------------- vocabulary of the calls
\* The step is the run of c's offer timer
TimerRan(c) == orch[c].timerArmed /\ ~orch'[c].timerArmed

\* The step makes c's socket emit an event ev
Emitted(c, ev) ==
    /\ Len(toRelay'[c]) > Len(toRelay[c])
    /\ toRelay'[c][Len(toRelay'[c])].event = ev

\* a and b are members of one of the rooms the callers name
RoomMates(rms, a, b) == \E r \in NamedRooms : {a, b} \subseteq rms[r]

\* C18: of two callers that joined the same room and both ran startCall, at
\* most one ever creates and emits an offer.
C18_AtMostOneOfferer ==
    \A a, b \in Callers :
        (a # b /\ RoomMates(rooms, a, b) /\ orch[a].started /\ orch[b].started)
            => ~(orch[a].offered /\ orch[b].offered)

\* C19: when the offer timer of a caller runs while the caller observes a
\* remote participant (a user-joined not undone by a user-left), the caller
\* creates no offer and emits none.
C19_OfferOnlyWhenAlone ==
    [][\A c \in Callers :
          (TimerRan(c) /\ Len(orch[c].remoteUsers) > 0)
              => /\ ~orch'[c].offering
                 /\ ~Emitted(c, "offer")
                 /\ orch'[c].localDescription = orch[c].localDescription]_vars

\* C20: every ice-candidate a caller handled while it had a peer session has
\* been applied to the session; none is lost (the hook keeps no candidate for
\* later, so a candidate is either applied by its handler or gone).
C20_NoCandidateLost ==
    \A c \in Callers : orch[c].iceApplied = orch[c].iceReceived

\* The step is the relay's run of the handler for the event ev of a's socket
RelayHandled(a, ev) ==
    /\ Dispatched(a, ev)
    /\ status[a] = "connected"
    /\ toRelay'[a] = Tail(toRelay[a])

\* The step is a run of a relay handler that delivers to b an envelope tagged
\* from a
EnvelopeDelivered(a, b) ==
    /\ \E ev \in Kinds : RelayHandled(a, ev)
    /\ \E i \in DOMAIN outbox' : b \in outbox'[i].to /\ outbox'[i].from = a

\* C11: when caller a, in a room with caller b, ends the call (leaveRoom and
\* cleanup, or its transport drops), b is delivered exactly one user-left {a}
\* and exactly one room-info by the relay's handling of it, never a second one,
\* and from then on no envelope tagged from a.
C11_OneNoticeOfTheEnd ==
    [][\A a, b \in Callers :
          a # b =>
            /\ ( /\ RelayHandled(a, "leave-room") \/ RelayHandled(a, "disconnect")
                 /\ RoomMates(rooms, a, b)
                 /\ orch[b].link = "up" )
                  => notices'[b][a] = [userLeft |-> 1, roomInfo |-> 1]
            /\ notices'[b][a].userLeft <= 1
            /\ notices'[b][a].roomInfo <= 1
            /\ notices[b][a].userLeft >= 1 => ~EnvelopeDelivered(a, b)]_vars

\* a ended the call by endCall while b was in its room: the relay has handled
\* a's leave-room and then its disconnect, and b is still connected
C11_Witness ==
    \E a, b \in Callers :
        /\ a # b
        /\ notices[b][a] = [userLeft |-> 1, roomInfo |-> 1]
        /\ last = Event("disconnect", a, NoRoom, 0)
        /\ orch[a].started /\ ~orch[a].socketRef
        /\ orch[b].link = "up"

\* The step is c's handling of an event ev the relay sent it
Received(c, ev) ==
    /\ inbox[c] # <<>>
    /\ Head(inbox[c]).event = ev
    /\ inbox'[c] = Tail(inbox[c])
    /\ orch[c].link = "up" /\ orch'[c].link = "up"

\* The step is the continuation of a suspended offer handler of c
OfferHandlerResumed(c) == orch'[c].answering = orch[c].answering - 1

\* The step makes c's socket emit exactly one event, an ev
EmittedOne(c, ev) ==
    /\ Len(toRelay'[c]) = Len(toRelay[c]) + 1
    /\ toRelay'[c][Len(toRelay'[c])].event = ev

\* C21: a caller with a peer session that handles an offer sets it as the
\* remote description and goes on to answer; the continuation sets an answer
\* as the local description and emits exactly one answer.  Without a peer
\* session the offer changes nothing and nothing is emitted.
C21_OfferIsAnswered ==
    [][\A c \in Callers :
          /\ (Received(c, "offer") /\ orch[c].peerConnectionRef)
                => /\ orch'[c].remoteDescription = "offer"
                   /\ orch'[c].answering = orch[c].answering + 1
          /\ (OfferHandlerResumed(c) /\ orch[c].peerConnectionRef)
                => /\ orch'[c].localDescription = "answer"
                   /\ EmittedOne(c, "answer")
          /\ (Received(c, "offer") /\ ~orch[c].peerConnectionRef)
                => /\ orch'[c] = orch[c]
                   /\ toRelay'[c] = toRelay[c]]_vars

\* C29: no caller has an offer handler suspended between the received offer
\* and its answer while its timer callback is suspended in the creation of
\* its own offer.
C29_OneExchangeAtATime ==
    \A c \in Callers : ~(orch[c].answering > 0 /\ orch[c].offering)

\* C30: handling user-joined changes nothing of the caller but remoteUsers,
\* which gains the user id unless it holds it, and emits nothing.
C30_UserJoinedFrame ==
    [][\A c \in Callers :
          Received(c, "user-joined")
            => /\ orch'[c] = [orch[c] EXCEPT !.remoteUsers = orch'[c].remoteUsers]
               /\ orch'[c].remoteUsers \in
                     {orch[c].remoteUsers,
                      Append(orch[c].remoteUsers, Head(inbox[c]).data)}
               /\ toRelay'[c] = toRelay[c]]_vars

\* A caller with a peer session, in a room, has handled a user-joined
C30_Witness ==
    \E c \in Callers :
        /\ orch[c].remoteUsers # <<>>
        /\ orch[c].peerConnectionRef
        /\ orch[c].currentRoomRef # NoRoom
        /\ orch[c].link = "up"

\* The step is the 'connect' event of c's socket after its transport dropped
Reconnected(c) == orch[c].link = "closed" /\ orch'[c].link = "up"

\* What c's socket emits in the step
EmittedIn(c) ==
    {toRelay'[c][i].event : i \in (Len(toRelay[c]) + 1)..Len(toRelay'[c])}

\* C26: after its transport dropped, the client rejoins and renegotiates by
\* nothing of its own: the later connect event makes it emit no join-room,
\* offer or answer
C26_NoAutomaticRejoin ==
    [][\A c \in Callers :
          Reconnected(c) =>
              EmittedIn(c) \cap {"join-room", "offer", "answer"} = {}]_vars

\* C24: every leave-room the client emits names a room its socket is a member
\* of when the relay handles it: none follows a join the relay rejected, and
\* none follows an earlier leave-room of the same join
C24_LeavesOnlyItsRoom ==
    [][\A c \in Callers :
          RelayHandled(c, "leave-room") =>
              c \in rooms[Head(toRelay[c]).roomId]]_vars

\* The step is a run of c's startCall: it arms the offer timer
StartCallRan(c) == ~orch[c].timerArmed /\ orch'[c].timerArmed

\* C25: startCall never runs over an open peer session: the session of an
\* earlier startCall has been closed by cleanup before the reference is set
C25_StartCallOnIdleOnly ==
    [][\A c \in Callers :
          StartCallRan(c) => ~orch[c].peerConnectionRef]_vars

\* The step is c's handling of an offer or a candidate that its peer session
\* rejects: the await throws into the catch of the handler
Rejected(c) ==
    /\ orch[c].peerConnectionRef
    /\ \/ Received(c, "ice-candidate") /\ ~AcceptsCandidate(orch[c])
       \/ Received(c, "offer") /\ orch'[c].answering = orch[c].answering
       \/ OfferHandlerResumed(c) /\ ~AcceptsLocalAnswer(orch[c])

\* C27: a rejection by the peer session of an offer, of the answer to it or of
\* a candidate is surfaced to the page: a callback of the hook runs in the step
C27_RejectionIsSurfaced ==
    [][\A c \in Callers :
          Rejected(c) =>
              orch'[c].stateCallbacks = orch[c].stateCallbacks + 1]_vars

\* c's peer session has a pending offer of its own and no remote description
AwaitsAnswer(o) ==
    o.peerConnectionRef /\ o.localDescription = "offer"
                        /\ o.remoteDescription = "none"

\* C22: an answer becomes the remote description of a session that has offered
\* and has no remote description; any other answer leaves the client as it
\* was, with no callback to the page
C22_AnswerOnlyToAnOffer ==
    [][\A c \in Callers :
          Received(c, "answer") =>
              IF AwaitsAnswer(orch[c])
              THEN orch'[c].remoteDescription = "answer"
              ELSE orch'[c] = orch[c]]_vars

\* The last connection state the peer session of o has reported
Reported(o) == IF o.peerConnectionRef THEN o.pcState ELSE "new"

\* C28: connectionState is the last state the peer session reported, "new"
\* when it has reported none or after cleanup; isConnected tells whether that
\* is "connected"; the last callback to the page carried the state reported
C28_StateMirrorsSession ==
    \A c \in Callers :
        /\ orch[c].connectionState = Reported(orch[c])
        /\ orch[c].isConnected <=> (orch[c].connectionState = "connected")
        /\ Reported(orch[c]) # "new" => orch[c].callbackState = Reported(orch[c])

\* What cleanup is to leave of the hook
Clean(o) ==
    /\ ~o.localStreamRef /\ ~o.peerConnectionRef /\ ~o.socketRef
    /\ o.currentRoomRef = NoRoom
    /\ o.remoteUsers = <<>>
    /\ ~o.isConnected /\ o.connectionState = "new"

\* The step runs c's cleanup on a hook that has a socket
CleanupRan(c) == orch[c].socketRef /\ ~orch'[c].socketRef

\* The leave-room events c's socket emits in the step
LeavesIn(c) ==
    {i \in (Len(toRelay[c]) + 1)..Len(toRelay'[c]) :
        toRelay'[c][i].event = "leave-room"}

\* C23: cleanup, in whatever state the hook is, leaves it with no stream, no
\* peer session, no socket, no current room, no remote users, isConnected
\* false and connectionState "new", and a second cleanup then changes and
\* sends nothing; the steps that run it end in such a state and emit at most
\* one leave-room
C23_CleanupResets ==
    [][\A c \in Callers :
          LET k == cleanup(c, orch[c])
          IN  /\ Clean(k.o)
              /\ cleanup(c, k.o) = Done(k.o, <<>>)
              /\ CleanupRan(c) =>
                    /\ Clean(orch'[c])
                    /\ Cardinality(LeavesIn(c)) <= 1]_vars

\* A hook that cleanup has reset after a call in which its session was
\* connected to a peer
C23_Witness ==
    /\ orch[Hook].started /\ Clean(orch[Hook])
    /\ orch[Hook].callbackState = "connected"

\* C35: the tracking map of the relay agrees with the membership of the rooms:
\* a socket is a member of a named room exactly if its entry records that room
C35_TrackingAgreesWithRooms ==
    \A p \in SocketIds, r \in NamedRooms :
        p \in rooms[r] <=> activeUsers[p] = r

\* The step is the discovery of a local candidate by c's peer session
Discovered(c) ==
    /\ orch[c].toDiscover > 0
    /\ orch'[c] = [orch[c] EXCEPT !.toDiscover = @ - 1]

C33_EnvelopeNamesCurrentRoom ==
    [][\A c \in Callers :
          \A i \in (Len(toRelay[c]) + 1)..Len(toRelay'[c]) :
              (toRelay'[c][i].event \in Kinds
                  /\ orch'[c].currentRoomRef # NoRoom) =>
                  toRelay'[c][i].roomId = orch'[c].currentRoomRef]_vars

\* C38: the relay handles no join-room of a client for a room that client's
\* socket is a member of: the connect handler, the effect and startCall
\* together emit join-room once for the stay in a room
C38_JoinOncePerStay ==
    [][\A c \in Callers :
          RelayHandled(c, "join-room") =>
              c \notin rooms[Head(toRelay[c]).roomId]]_vars

\* A client whose connect handler, effect and startCall have all run and whose
\* one join-room the relay has handled
C38_Witness ==
    /\ orch[1].started /\ orch[1].socketConnected
    /\ orch[1].currentRoomRef # NoRoom
    /\ 1 \in rooms[orch[1].currentRoomRef]
    /\ toRelay[1] = <<>>

\* Nothing is on its way to the relay or from the relay to a client
Quiet == \A b \in Callers : toRelay[b] = <<>> /\ inbox[b] = <<>>

\* The users in the list users
UsersOf(users) == {users[i] : i \in DOMAIN users}

\* C34: when nothing is in flight, the remoteUsers of a client that is a
\* member of a room lists the other members of that room, each once
C34_RemoteUsersAreRoomMates ==
    \A c \in Callers, r \in NamedRooms :
        (Quiet /\ orch[c].link = "up" /\ c \in rooms[r]) =>
            /\ UsersOf(orch[c].remoteUsers) = rooms[r] \ {c}
            /\ Len(orch[c].remoteUsers) = Cardinality(rooms[r] \ {c})

\* cleanup has run on the hook o and released its socket
AfterCleanup(o) == ~o.socketRef /\ o.link = "closed"

C32_OneOfferPerSession ==
    \A c \in Callers : orch[c].sessionOffers <= 1

\* Both callers hold a local and a remote description
Negotiated ==
    \A c \in Callers : /\ orch[c].localDescription # "none"
                       /\ orch[c].remoteDescription # "none"

\* C36: when caller 2 has started its call in the room where caller 1 waits,
\* the exchange completes without a further click
C36_NegotiationCompletes == orch[Later].started ~> Negotiated

====
